---- MODULE Spec2Model ----
(***************************************************************************)
(* Model of the UCSC event tracker server: the campus date parser, the     *)
(* keyword fallback classifier, the remote classifier call, the retry      *)
(* wrapper classifyWithRetry, and the two routes POST /api/refresh and     *)
(* GET /api/events around the in-memory cache cachedEvents.                *)
(*                                                                         *)
(* JavaScript strings are TLA+ strings (TLC evaluates Len, SubSeq and \o   *)
(* on them).  A JavaScript value that may be a string or a number is a     *)
(* record [t, s, n].  A function that may throw returns a record           *)
(* [throws, error, value].  confidence is counted in hundredths.           *)
(***************************************************************************)
EXTENDS Integers, Sequences, FiniteSets, TLC

(* ------------------------------ bounds -------------------------------- *)

\* Largest maxRetries argument tried on a direct call of classifyWithRetry.
MaxRetriesBound == 3

\* Largest number of rows the spreadsheet range holds.
MaxRows == 2

\* Number of POST /api/refresh requests that may be received (and overlap).
MaxRuns == 2

\* The calendar year of the clock, read by new Date().getFullYear().
CurrentYear == 2026

(* --------------------------- JavaScript values ------------------------ *)

Str(s) == [t |-> "str", s |-> s, n |-> 0]

Num(n) == [t |-> "num", s |-> "", n |-> n]

Undefined == [t |-> "undefined", s |-> "", n |-> 0]

\* JavaScript truthiness of a string, a number or undefined.
Truthy(v) ==
  CASE v.t = "str" -> v.s # ""
    [] v.t = "num" -> v.n # 0
    [] OTHER       -> FALSE

\* a || b
OrElse(a, b) == IF Truthy(a) THEN a ELSE b

CharAt(s, i) == SubSeq(s, i, i)

DigitChars == {"0", "1", "2", "3", "4", "5", "6", "7", "8", "9"}

DigitVal(c) == CHOOSE d \in 0..9 : CharAt("0123456789", d + 1) = c

UpperAlphabet == "ABCDEFGHIJKLMNOPQRSTUVWXYZ"

LowerAlphabet == "abcdefghijklmnopqrstuvwxyz"

LowerChar(c) ==
  IF \E i \in 1..26 : CharAt(UpperAlphabet, i) = c
  THEN CharAt(LowerAlphabet, CHOOSE i \in 1..26 : CharAt(UpperAlphabet, i) = c)
  ELSE c

RECURSIVE toLowerCase(_)
toLowerCase(s) ==
  IF s = "" THEN "" ELSE LowerChar(Head(s)) \o toLowerCase(Tail(s))

\* \s of the regular expressions, over the characters the inputs use.
IsSpace(c) == c \in {" ", "\t", "\n"}

RECURSIVE trimStart(_)
trimStart(s) ==
  IF s # "" /\ IsSpace(Head(s)) THEN trimStart(Tail(s)) ELSE s

RECURSIVE trimEnd(_)
trimEnd(s) ==
  IF s # "" /\ IsSpace(CharAt(s, Len(s)))
  THEN trimEnd(SubSeq(s, 1, Len(s) - 1))
  ELSE s

trim(s) == trimEnd(trimStart(s))

\* s.replace(/\s+/g, " ")
RECURSIVE collapseSpaces(_)
collapseSpaces(s) ==
  IF s = "" THEN ""
  ELSE IF IsSpace(Head(s))
       THEN " " \o collapseSpaces(trimStart(s))
       ELSE Head(s) \o collapseSpaces(Tail(s))

\* s.split(" "): the pieces between single spaces (empty pieces included).
RECURSIVE splitFrom(_, _)
splitFrom(s, cur) ==
  IF s = "" THEN <<cur>>
  ELSE IF Head(s) = " "
       THEN <<cur>> \o splitFrom(Tail(s), "")
       ELSE splitFrom(Tail(s), cur \o Head(s))

split(s) == splitFrom(s, "")

\* parts.slice(from).join(" "), from counted from 1
RECURSIVE joinFrom(_, _)
joinFrom(parts, from) ==
  IF from > Len(parts) THEN ""
  ELSE IF from = Len(parts) THEN parts[from]
       ELSE parts[from] \o " " \o joinFrom(parts, from + 1)

\* The longest prefix of s made of decimal digits.
RECURSIVE digitPrefix(_)
digitPrefix(s) ==
  IF s # "" /\ Head(s) \in DigitChars
  THEN Head(s) \o digitPrefix(Tail(s))
  ELSE ""

RECURSIVE digitsValue(_, _)
digitsValue(s, acc) ==
  IF s = "" THEN acc ELSE digitsValue(Tail(s), 10 * acc + DigitVal(Head(s)))

NaN == [nan |-> TRUE, v |-> 0]

Number(v) == [nan |-> FALSE, v |-> v]

\* parseInt(s, 10) of a string, or of undefined when present is FALSE.
signedDigits(neg, ds) ==
  IF ds = "" THEN NaN
  ELSE Number(IF neg THEN 0 - digitsValue(ds, 0) ELSE digitsValue(ds, 0))

parseTrimmed(t) ==
  signedDigits(t # "" /\ Head(t) = "-",
               digitPrefix(IF t # "" /\ Head(t) \in {"-", "+"} THEN Tail(t) ELSE t))

parseInt(present, s) == IF ~present THEN NaN ELSE parseTrimmed(trimStart(s))

\* String(n) of an integer, as a template literal renders it.
RECURSIVE natToString(_)
natToString(n) ==
  IF n < 10 THEN CharAt("0123456789", n + 1)
  ELSE natToString(n \div 10) \o CharAt("0123456789", (n % 10) + 1)

toString(v) ==
  IF v.t = "str" THEN v.s
  ELSE IF v.n < 0 THEN "-" \o natToString(0 - v.n) ELSE natToString(v.n)

(* ------------------------------ dates --------------------------------- *)

\* Day number of 1 January of year y, counted from 1 January 1970.
DayFromYear(y) ==
  365 * (y - 1970) + ((y - 1969) \div 4) - ((y - 1901) \div 100)
    + ((y - 1601) \div 400)

InLeapYear(y) == (y % 4 = 0) /\ ((y % 100 # 0) \/ (y % 400 = 0))

\* Days of year y before its month m (0 = January).
DaysBeforeMonth(y, m) ==
  <<0, 31, 59, 90, 120, 151, 181, 212, 243, 273, 304, 334>>[m + 1]
    + (IF m >= 2 /\ InLeapYear(y) THEN 1 ELSE 0)

\* A Date is its time value in whole days and minutes since the epoch, or
\* invalid.  A Date holds at most 8.64e15 ms, which is 100000000 days, on
\* either side of the epoch.  Local time is taken to be UTC.
InvalidDate == [valid |-> FALSE, day |-> 0, minute |-> 0]

\* new Date(): the current instant (1 November of the current year, 10:00).
Now == [valid |-> TRUE, day |-> DayFromYear(CurrentYear) + 304, minute |-> 600]

\* new Date(y, m, d, hh, mm, 0) with m in 0..11; d, hh, mm overflow into the
\* following days as the constructor lets them.
TimeClip(dd, rem) ==
  IF dd < -100000000 \/ dd > 100000000 \/ (dd = 100000000 /\ rem > 0)
  THEN InvalidDate
  ELSE [valid |-> TRUE, day |-> dd, minute |-> rem]

NewDate(y, m, d, hh, mm) ==
  TimeClip(DayFromYear(y) + DaysBeforeMonth(y, m) + d - 1
             + ((hh * 60 + mm) \div 1440),
           (hh * 60 + mm) % 1440)

\* months[tok]: a month index, undefined, or (for the keys every object
\* inherits) a value that is neither null nor a number.
months(tok) ==
  CASE tok = "jan"  -> [kind |-> "number", v |-> 0]
    [] tok = "feb"  -> [kind |-> "number", v |-> 1]
    [] tok = "mar"  -> [kind |-> "number", v |-> 2]
    [] tok = "apr"  -> [kind |-> "number", v |-> 3]
    [] tok = "may"  -> [kind |-> "number", v |-> 4]
    [] tok = "jun"  -> [kind |-> "number", v |-> 5]
    [] tok = "jul"  -> [kind |-> "number", v |-> 6]
    [] tok = "aug"  -> [kind |-> "number", v |-> 7]
    [] tok = "sep"  -> [kind |-> "number", v |-> 8]
    [] tok = "sept" -> [kind |-> "number", v |-> 8]
    [] tok = "oct"  -> [kind |-> "number", v |-> 9]
    [] tok = "nov"  -> [kind |-> "number", v |-> 10]
    [] tok = "dec"  -> [kind |-> "number", v |-> 11]
    [] tok \in {"constructor", "__proto__"} -> [kind |-> "object", v |-> 0]
    [] OTHER -> [kind |-> "undefined", v |-> 0]

\* timeRaw.match(/^(\d{1,2})(?::(\d{2}))?\s*(am|pm)?$/): the groups, or no
\* match.  After the hour digits no further digit can match, so the greedy
\* choice of one or two digits is the only one that can succeed.
matchRest(h, mmS, r2) ==
  IF h # "" /\ r2 \in {"", "am", "pm"}
  THEN [matched |-> TRUE, h |-> h, mm |-> mmS, mer |-> r2]
  ELSE [matched |-> FALSE, h |-> "", mm |-> "", mer |-> ""]

matchMinutes(h, r1, hasMM) ==
  matchRest(h, IF hasMM THEN SubSeq(r1, 2, 3) ELSE "",
            trimStart(IF hasMM THEN SubSeq(r1, 4, Len(r1)) ELSE r1))

matchHour(h, r1) ==
  matchMinutes(h, r1,
               Len(r1) >= 3 /\ Head(r1) = ":" /\ CharAt(r1, 2) \in DigitChars
                 /\ CharAt(r1, 3) \in DigitChars)

matchDigits(timeRaw, ds) ==
  matchHour(IF Len(ds) > 2 THEN SubSeq(ds, 1, 2) ELSE ds,
            SubSeq(timeRaw, (IF Len(ds) > 2 THEN 2 ELSE Len(ds)) + 1, Len(timeRaw)))

matchTime(timeRaw) == matchDigits(timeRaw, digitPrefix(timeRaw))

\* if (mer === "pm" && hh < 12) hh += 12
pmHour(hh, mer) == IF mer = "pm" /\ hh < 12 THEN hh + 12 ELSE hh

\* if (mer === "am" && hh === 12) hh = 0
amHour(hh, mer) == IF mer = "am" /\ hh = 12 THEN 0 ELSE hh

timeOfMatch(timeRaw, m2) ==
  IF timeRaw # "" /\ m2.matched
  THEN [hh |-> amHour(pmHour(digitsValue(m2.h, 0), m2.mer), m2.mer),
        mm |-> IF m2.mm # "" THEN digitsValue(m2.mm, 0) ELSE 0]
  ELSE [hh |-> 9, mm |-> 0]

\* The hour and minute parseCampusDate takes from the rest of the string.
timeOfDay(timeRaw) == timeOfMatch(timeRaw, matchTime(timeRaw))

\* parseInt(parts[1], 10) || 1
dayOf(pd) == IF pd.nan \/ pd.v = 0 THEN 1 ELSE pd.v

fieldsOfParts(parts, tod) ==
  [m  |-> months(parts[1]),
   d  |-> dayOf(parseInt(Len(parts) >= 2, IF Len(parts) >= 2 THEN parts[2] ELSE "")),
   hh |-> tod.hh,
   mm |-> tod.mm]

fieldsOf(parts) == fieldsOfParts(parts, timeOfDay(joinFrom(parts, 3)))

\* The month, day, hour and minute parseCampusDate reads from a string.
dateFields(str0) == fieldsOf(split(collapseSpaces(toLowerCase(trim(str0)))))

Returns(v) == [throws |-> FALSE, error |-> "", value |-> v]

Throws(e) == [throws |-> TRUE, error |-> e, value |-> [undefined |-> TRUE]]

\* parseCampusDate(s): s is a string or (from an unformatted sheet cell) a
\* number, on which s.trim is not a function.
\* if (m == null || isNaN(d)) return new Date(); return new Date(y, m, ...)
dateOfFields(f) ==
  CASE f.m.kind = "undefined" -> Returns(Now)
    [] f.m.kind = "object"    -> Returns(InvalidDate)
    [] OTHER -> Returns(NewDate(CurrentYear, f.m.v, f.d, f.hh, f.mm))

parseCampusDate(s) ==
  IF ~Truthy(s) THEN Returns(Now)
  ELSE IF s.t # "str" THEN Throws("TypeError")
  ELSE dateOfFields(dateFields(s.s))

\* date.toISOString(): the time value in text form; a RangeError on an
\* invalid date.
toISOString(date) ==
  IF date.valid THEN Returns([day |-> date.day, minute |-> date.minute])
  ELSE Throws("RangeError")

(* ------------------------ fallback classification --------------------- *)

AlnumChars ==
  DigitChars \cup {CharAt(LowerAlphabet, i) : i \in 1..26}

\* text.match(/[a-z0-9]+/g) || [], as the set the code makes of it.
RECURSIVE tokensFrom(_, _)
tokensFrom(s, cur) ==
  IF s = "" THEN (IF cur = "" THEN {} ELSE {cur})
  ELSE IF Head(s) \in AlnumChars
       THEN tokensFrom(Tail(s), cur \o Head(s))
       ELSE (IF cur = "" THEN {} ELSE {cur}) \cup tokensFrom(Tail(s), "")

tokenSet(text) == tokensFrom(text, "")

\* categoryOf that tests the Career keywords before the Workshop keywords.
categoryOf_CareerFirst(tokens) ==
  LET has(w) == w \in tokens
  IN  IF has("career") \/ has("recruit") \/ has("internship") THEN "Career"
      ELSE IF has("workshop") \/ has("tutorial") \/ has("bootcamp")
           THEN "Workshop"
      ELSE IF has("game") \/ has("party") \/ has("mixer") \/ has("social")
           THEN "Social"
      ELSE IF has("club") \/ has("org") \/ has("meeting") THEN "Club/Org"
      ELSE IF has("volunteer") \/ has("service") THEN "Volunteer"
      ELSE IF has("lecture") \/ has("seminar") \/ has("talk")
                \/ has("colloquium") THEN "Academic"
      ELSE IF has("basketball") \/ has("soccer") \/ has("run")
                \/ has("tournament") THEN "Sports"
      ELSE IF has("heritage") \/ has("cultural") \/ has("festival")
                \/ has("film") THEN "Cultural"
      ELSE "Other"

categoryOf(tokens) ==
  LET has(w) == w \in tokens
  IN  IF has("workshop") \/ has("tutorial") \/ has("bootcamp") THEN "Workshop"
      ELSE IF has("career") \/ has("recruit") \/ has("internship") THEN "Career"
      ELSE IF has("game") \/ has("party") \/ has("mixer") \/ has("social")
           THEN "Social"
      ELSE IF has("club") \/ has("org") \/ has("meeting") THEN "Club/Org"
      ELSE IF has("volunteer") \/ has("service") THEN "Volunteer"
      ELSE IF has("lecture") \/ has("seminar") \/ has("talk")
                \/ has("colloquium") THEN "Academic"
      ELSE IF has("basketball") \/ has("soccer") \/ has("run")
                \/ has("tournament") THEN "Sports"
      ELSE IF has("heritage") \/ has("cultural") \/ has("festival")
                \/ has("film") THEN "Cultural"
      ELSE "Other"

audienceOf(tokens) ==
  LET has(w) == w \in tokens
  IN  <<"Undergrad">>
        \o (IF has("graduate") \/ has("phd") \/ has("ms") THEN <<"Grad">> ELSE <<>>)
        \o (IF has("alumni") THEN <<"Alumni">> ELSE <<>>)
        \o (IF has("staff") THEN <<"Staff">> ELSE <<>>)
        \o (IF has("public") \/ has("community") THEN <<"Public">> ELSE <<>>)

locationTypeOf(tokens) ==
  LET has(w) == w \in tokens
  IN  IF has("zoom") \/ has("virtual") \/ has("online") THEN "Virtual"
      ELSE IF has("hybrid") THEN "Hybrid"
      ELSE IF has("campus") \/ has("hall") \/ has("center") \/ has("theater")
                \/ has("lab") THEN "On-campus"
      ELSE "Off-campus"

tagsOf(category, tokens) ==
  LET has(w) == w \in tokens
  IN  (IF category # "Other" THEN <<toLowerCase(category)>> ELSE <<>>)
        \o (IF has("free") THEN <<"free">> ELSE <<>>)
        \o (IF has("food") \/ has("pizza") THEN <<"food">> ELSE <<>>)
        \o (IF has("resume") THEN <<"resume">> ELSE <<>>)
        \o (IF has("tech") \/ has("cs") \/ has("gds") THEN <<"tech">> ELSE <<>>)

\* Array.from(new Set(a)): the first occurrence of each element, in order.
RECURSIVE dedupe(_, _)
dedupe(a, seen) ==
  IF a = <<>> THEN <<>>
  ELSE IF Head(a) \in seen THEN dedupe(Tail(a), seen)
       ELSE <<Head(a)>> \o dedupe(Tail(a), seen \cup {Head(a)})

\* a.slice(0, n) for n >= 0
sliceTo(a, n) == SubSeq(a, 1, IF n < Len(a) THEN n ELSE Len(a))

FallbackRationale ==
  "Fallback classification used due to API quota or transient errors."

\* parseCampusDate(ev.date || "").toISOString()
normalizedDate(parsed) ==
  IF parsed.throws THEN parsed ELSE toISOString(parsed.value)

classificationOf(tokens, category, iso) ==
  IF iso.throws THEN iso
  ELSE Returns([category        |-> category,
                tags            |-> sliceTo(dedupe(tagsOf(category, tokens), {}), 8),
                audience        |-> sliceTo(audienceOf(tokens), 3),
                normalized_date |-> iso.value,
                location_type   |-> locationTypeOf(tokens),
                confidence      |-> 25,
                rationale       |-> FallbackRationale])

classifyTokens(tokens, iso) == classificationOf(tokens, categoryOf(tokens), iso)

fallbackClassification(ev) ==
  classifyTokens(
    tokenSet(toLowerCase(toString(ev.title) \o " " \o toString(ev.description)
                           \o " " \o toString(ev.location))),
    normalizedDate(parseCampusDate(OrElse(ev.date, Str("")))))

(* ----------------------------- sheet rows ----------------------------- *)

\* row[i] || "" with i counted from 1; a cell past the end is undefined.
cellOr(row, i) ==
  OrElse(IF i <= Len(row) THEN row[i] ELSE Undefined, Str(""))

rowToEvent(row) ==
  [title       |-> cellOr(row, 1),
   date        |-> cellOr(row, 2),
   time        |-> Str(""),
   location    |-> cellOr(row, 3),
   org         |-> cellOr(row, 4),
   description |-> cellOr(row, 5),
   url         |-> cellOr(row, 6)]

\* Rows as sheets.spreadsheets.values.get returns them with
\* valueRenderOption UNFORMATTED_VALUE: trailing empty cells are left out,
\* and a cell holding a date or a number comes back as a number.
RowWorkshop ==
  <<Str("Resume Workshop"), Str("sept 26 6:00pm"), Str("Career Center"),
    Str("GDS"), Str("Free pizza"), Str("https://example.edu/w")>>

RowSerialDate == <<Str("Film Festival"), Num(45926), Str("Zoom")>>

RowTitleOnly == <<Str("Chess club meeting")>>

RowFarDay == <<Str("Alumni mixer"), Str("jan 999999999 7pm")>>

SheetRows == {RowWorkshop, RowSerialDate, RowTitleOnly}

\* The events classifyWithRetry is called with.
DirectEvents ==
  {rowToEvent(row) : row \in SheetRows \cup {RowFarDay, <<>>}}

\* fallbackClassification on each of these events.
FallbackResults == [ev \in DirectEvents |-> fallbackClassification(ev)]

(* -------------------------- remote classifier ------------------------- *)

Categories ==
  {"Academic", "Career", "Social", "Cultural", "Sports",
   "Workshop", "Volunteer", "Club/Org", "Admin/Advising", "Other"}

Audiences == {"Undergrad", "Grad", "Alumni", "Staff", "Public"}

LocationTypes == {"On-campus", "Off-campus", "Virtual", "Hybrid"}

RequiredKeys ==
  {"category", "tags", "audience", "normalized_date",
   "location_type", "confidence", "rationale"}

\* classificationSchema.schema applied to a value: an object with exactly
\* the required keys, each within its enum or range.  A normalized_date
\* that is no date-time is the record [text |-> ...].
classificationSchema(v) ==
  /\ DOMAIN v = RequiredKeys
  /\ v.category \in Categories
  /\ Len(v.tags) <= 8
  /\ Len(v.audience) >= 1 /\ Len(v.audience) <= 3
  /\ \A i \in 1..Len(v.audience) : v.audience[i] \in Audiences
  /\ DOMAIN v.normalized_date = {"day", "minute"}
  /\ v.location_type \in LocationTypes
  /\ v.confidence >= 0 /\ v.confidence <= 100

\* What openai.responses.create settles with: a response carrying
\* output_text, or an error.  A text is its syntax and the value it denotes;
\* an error has e.status, e.response.status (0 when absent) and e.message.
Response(syntax, value) ==
  [kind |-> "response", syntax |-> syntax, value |-> value,
   status |-> 0, responseStatus |-> 0, message |-> ""]

Failure(status, responseStatus, message) ==
  [kind |-> "error", syntax |-> "", value |-> [undefined |-> TRUE],
   status |-> status, responseStatus |-> responseStatus, message |-> message]

RemoteGood ==
  [category |-> "Career", tags |-> <<"resume", "career">>,
   audience |-> <<"Undergrad", "Grad">>,
   normalized_date |-> [day |-> 20722, minute |-> 1080],
   location_type |-> "On-campus", confidence |-> 90,
   rationale |-> "Resume help at the career center."]

\* Well-formed JSON texts that do not meet the schema.
RemoteOffSchema ==
  {[RemoteGood EXCEPT !.category = "Concert"],
   [RemoteGood EXCEPT !.confidence = 150],
   [RemoteGood EXCEPT !.audience = <<>>],
   [RemoteGood EXCEPT !.tags = <<"a", "b", "c", "d", "e", "f", "g", "h", "i">>],
   [RemoteGood EXCEPT !.normalized_date = [text |-> "next friday"]],
   [category |-> "Other"],
   [null |-> TRUE]}

Responses ==
  {Response("json", RemoteGood)}
    \cup {Response("json", v) : v \in RemoteOffSchema}
    \cup {Response("malformed", [undefined |-> TRUE]),
          Response("undefined", [undefined |-> TRUE])}

Failures ==
  {Failure(st, 0, "request failed") : st \in {0, 404, 429, 499, 500, 599, 600}}
    \cup {Failure(0, 503, "request failed")}

Replies == Responses \cup Failures

\* JSON.parse(resp.output_text) inside classifyEvent's try: the value of a
\* well-formed text; anything else throws and is rethrown as bad_json.
classifyEvent(reply) ==
  IF reply.kind = "error" THEN Throws(reply)
  ELSE IF reply.syntax = "json" THEN Returns(reply.value)
  ELSE Throws(Failure(0, 0, "bad_json"))

(* ---------------------------- classifyWithRetry ----------------------- *)

\* const status = e?.status || e?.response?.status
statusOf(e) == IF e.status # 0 THEN e.status ELSE e.responseStatus

\* is429 || is5xx || e.message === "bad_json"
retryable(e) ==
  \/ statusOf(e) = 429
  \/ (statusOf(e) >= 500 /\ statusOf(e) < 600)
  \/ e.message = "bad_json"

NoCall ==
  [phase |-> "none", ev |-> rowToEvent(<<>>), maxRetries |-> 0, attempt |-> 0,
   delay |-> 0, source |-> "", result |-> [undefined |-> TRUE], error |-> ""]

\* Entry of classifyWithRetry(ev, maxRetries): delay = 1500, attempt = 0,
\* and, the loop condition holding, the first request of classifyEvent.
\* With the loop condition false the function ends without a value.
beginCall(ev, maxRetries) ==
  [NoCall EXCEPT !.ev = ev, !.maxRetries = maxRetries, !.delay = 1500,
                 !.phase = IF 0 <= maxRetries THEN "request" ELSE "returned"]

\* return fallbackClassification(ev), fb being what that call does: the
\* call returns its value, or ends with what it throws.
returnFallback(call, fb) ==
  IF fb.throws
  THEN [call EXCEPT !.phase = "thrown", !.error = fb.error]
  ELSE [call EXCEPT !.phase = "returned", !.source = "fallback",
                    !.result = fb.value]

\* catchError with attempt <= maxRetries for the guard of line 204.
catchError_RetryOnLast(call, e) ==
  IF call.attempt <= call.maxRetries /\ retryable(e)
  THEN [call EXCEPT !.phase = "sleep"]
  ELSE returnFallback(call, FallbackResults[call.ev])

\* The catch block for error e.
catchError(call, e) ==
  IF call.attempt < call.maxRetries /\ retryable(e)
  THEN [call EXCEPT !.phase = "sleep"]
  ELSE returnFallback(call, FallbackResults[call.ev])

\* The request of the current attempt settles with reply.
afterAttempt(call, r) ==
  IF r.throws THEN catchError(call, r.error)
  ELSE [call EXCEPT !.phase = "returned", !.source = "remote",
                    !.result = r.value]

onReply(call, reply) == afterAttempt(call, classifyEvent(reply))

\* The loop condition attempt <= maxRetries, then the next request.
nextAttempt(c) ==
  [c EXCEPT !.phase = IF c.attempt <= c.maxRetries THEN "request" ELSE "returned"]

\* onWake without the doubling of line 206.
onWake_NoDoubling(call) ==
  nextAttempt([call EXCEPT !.attempt = call.attempt + 1])

\* sleep(delay) is over: delay *= 2; continue; attempt++; next request.
onWake(call) ==
  nextAttempt([call EXCEPT !.delay = 2 * call.delay, !.attempt = call.attempt + 1])

\* The default of the maxRetries parameter.
DefaultMaxRetries == 2

(* ------------------------------ the server ---------------------------- *)

RECURSIVE SeqsUpTo(_, _)
SeqsUpTo(S, n) ==
  IF n = 0 THEN {<<>>}
  ELSE LET shorter == SeqsUpTo(S, n - 1)
       IN  shorter \cup {Append(q, e) : q \in {p \in shorter : Len(p) = n - 1}, e \in S}

Sheets == SeqsUpTo(SheetRows, MaxRows)

\* process.env: "" stands for a variable that is not set.
Environments ==
  [REFRESH_TOKEN : {"", "s3cret"},
   MAX_EVENTS    : {""} \cup {natToString(k) : k \in 0..MaxRows}]

\* req.query.token
Tokens == {Undefined, Str("s3cret"), Str("guess")}

Runs == 1..MaxRuns

NoResponse == [status |-> 0, ok |-> FALSE, count |-> 0, error |-> ""]

IdleRun ==
  [pc |-> "idle", toClassify |-> <<>>, i |-> 0, results |-> <<>>,
   call |-> NoCall, response |-> NoResponse]

VARIABLES
  env,           \* process.env
  sheet,         \* the rows of the spreadsheet range
  cachedEvents,  \* the in-memory cache
  runs,          \* the POST /api/refresh handlers, by request
  getResponse,   \* the body of the last GET /api/events response
  call,          \* a direct invocation of classifyWithRetry
  requests,      \* remote requests the direct invocation has sent
  sleeps,        \* the sleeps the direct invocation has started
  log,           \* the replies the direct invocation has received
  probe          \* a direct application of one of the pure functions

vars ==
  <<env, sheet, cachedEvents, runs, getResponse, call, requests, sleeps, log,
    probe>>

serverVars == <<env, sheet, cachedEvents, runs, getResponse>>

callVars == <<call, requests, sleeps, log, probe>>

\* No function is being applied.
NoProbe ==
  [fn |-> "none", arg |-> <<>>, src |-> <<>>, done |-> FALSE, out |-> <<>>]

Init ==
  /\ env \in Environments
  /\ sheet \in Sheets
  /\ cachedEvents = <<>>
  /\ runs = [r \in Runs |-> IdleRun]
  /\ getResponse = [status |-> 0, events |-> <<>>]
  /\ call = NoCall
  /\ requests = 0
  /\ sleeps = <<>>
  /\ log = <<>>
  /\ probe = NoProbe

\* { ...ev, classification: cls }
withClassification(ev, cls) ==
  [title |-> ev.title, date |-> ev.date, time |-> ev.time,
   location |-> ev.location, org |-> ev.org, description |-> ev.description,
   url |-> ev.url, classification |-> cls]

RECURSIVE mapRowToEvent(_)
mapRowToEvent(rows) ==
  IF rows = <<>> THEN <<>>
  ELSE <<rowToEvent(Head(rows))>> \o mapRowToEvent(Tail(rows))

\* maxEvents that never reads MAX_EVENTS.
maxEvents_NoCap(e, length) == length

\* Number(process.env.MAX_EVENTS || rawEvents.length), for a MAX_EVENTS of
\* decimal digits.
maxEvents(e, length) ==
  IF e.MAX_EVENTS # "" THEN digitsValue(e.MAX_EVENTS, 0) ELSE length

\* The 401 guard that lets a request without a token through.
unauthorized_MissingTokenPasses(e, token) ==
  e.REFRESH_TOKEN # "" /\ token # Undefined /\ token # Str(e.REFRESH_TOKEN)

\* The 401 guard that compares the token even when no secret is set.
unauthorized_AlwaysCompares(e, token) ==
  token # Str(e.REFRESH_TOKEN)

\* The 401 guard of the route.
unauthorized(e, token) ==
  e.REFRESH_TOKEN # "" /\ token # Str(e.REFRESH_TOKEN)

Respond(run, status, ok, count, error) ==
  [run EXCEPT !.pc = "done", !.call = NoCall,
              !.response = [status |-> status, ok |-> ok, count |-> count,
                            error |-> error]]

\* e?.message || "unknown_error"
messageOf(error) ==
  CASE error = "TypeError"  -> "s.trim is not a function"
    [] error = "RangeError" -> "Invalid time value"
    [] error = ""           -> "unknown_error"
    [] OTHER                -> error

\* A catch block that logs the error and sends no response.
failRun_NoResponse(run, error) ==
  [run EXCEPT !.pc = "caught", !.call = NoCall,
              !.toClassify = <<>>, !.results = <<>>, !.i = 0]

\* The catch block of the route: 500, and the locals are dropped.
failRun(run, error) ==
  Respond([run EXCEPT !.toClassify = <<>>, !.results = <<>>, !.i = 0],
          500, FALSE, 0, messageOf(error))

\* The for loop of the route from the head of an iteration: the next
\* classifyWithRetry call, or past the last event the 200 response.
loopHead(run) ==
  IF run.i <= Len(run.toClassify)
  THEN [run EXCEPT !.pc = "classify",
                   !.call = beginCall(run.toClassify[run.i], DefaultMaxRetries)]
  ELSE Respond(run, 200, TRUE, Len(run.results), "")

\* The handler resumes with the state c of its classifyWithRetry call.
resume(run, c) ==
  CASE c.phase = "returned" ->
         loopHead([run EXCEPT
                     !.results = Append(run.results,
                                        withClassification(c.ev, c.result)),
                     !.i = run.i + 1])
    [] c.phase = "thrown" -> failRun(run, c.error)
    [] OTHER -> [run EXCEPT !.call = c]

\* cacheAfter that also stores the results each time the loop pushes one.
cacheAfter_EveryPush(cache, run, next) ==
  IF next.response.status = 200 /\ run.response.status # 200
  THEN next.results
  ELSE IF Len(next.results) > Len(run.results) THEN next.results ELSE cache

\* cacheAfter that also stores what a failing run had classified so far.
cacheAfter_OnFailure(cache, run, next) ==
  IF next.response.status = 200 /\ run.response.status # 200
  THEN next.results
  ELSE IF next.response.status = 500 /\ run.response.status # 500
       THEN run.results
       ELSE cache

\* cachedEvents after the handler moved from run to next: line 241 runs
\* right before the 200 response, and nowhere else.
cacheAfter(cache, run, next) ==
  IF next.response.status = 200 /\ run.response.status # 200
  THEN next.results
  ELSE cache

\* Lines 229-235: the events to classify, and into the loop.
startLoop(run, rawEvents, e) ==
  loopHead([run EXCEPT
              !.toClassify = sliceTo(rawEvents, maxEvents(e, Len(rawEvents))),
              !.results = <<>>, !.i = 1])

\* POST /api/refresh arrives: 401, or the Sheets request is sent.  The
\* requests are numbered in the order they arrive.
PostRefresh(r, token) ==
  /\ runs[r].pc = "idle"
  /\ \A q \in Runs : q < r => runs[q].pc # "idle"
  /\ runs' = [runs EXCEPT ![r] =
                IF unauthorized(env, token)
                THEN Respond(runs[r], 401, FALSE, 0, "unauthorized")
                ELSE [runs[r] EXCEPT !.pc = "sheets"]]
  /\ UNCHANGED <<env, sheet, cachedEvents, getResponse, callVars>>

\* The Sheets request fails: the catch block answers 500.
SheetsFail(r, message) ==
  /\ runs[r].pc = "sheets"
  /\ runs' = [runs EXCEPT ![r] = failRun(runs[r], message)]
  /\ UNCHANGED <<env, sheet, cachedEvents, getResponse, callVars>>

\* The Sheets request returns the rows: lines 229-237 up to the first
\* remote request (or, with nothing to classify, lines 241-242).
SheetsOk(r) ==
  /\ runs[r].pc = "sheets"
  /\ runs' = [runs EXCEPT ![r] = startLoop(runs[r], mapRowToEvent(sheet), env)]
  /\ cachedEvents' = cacheAfter(cachedEvents, runs[r], runs'[r])
  /\ UNCHANGED <<env, sheet, getResponse, callVars>>

\* The remote request of run r settles.
RunReply(r, reply) ==
  /\ runs[r].pc = "classify"
  /\ runs[r].call.phase = "request"
  /\ runs' = [runs EXCEPT ![r] = resume(runs[r], onReply(runs[r].call, reply))]
  /\ cachedEvents' = cacheAfter(cachedEvents, runs[r], runs'[r])
  /\ UNCHANGED <<env, sheet, getResponse, callVars>>

\* The backoff sleep of run r ends.
RunWake(r) ==
  /\ runs[r].pc = "classify"
  /\ runs[r].call.phase = "sleep"
  /\ runs' = [runs EXCEPT ![r] = resume(runs[r], onWake(runs[r].call))]
  /\ cachedEvents' = cacheAfter(cachedEvents, runs[r], runs'[r])
  /\ UNCHANGED <<env, sheet, getResponse, callVars>>

\* GET /api/events that answers with an empty list whatever the cache holds.
GetEvents_Empty ==
  /\ getResponse' = [status |-> 200, events |-> <<>>]
  /\ UNCHANGED <<env, sheet, cachedEvents, runs, callVars>>

\* GET /api/events
GetEvents ==
  /\ getResponse' = [status |-> 200, events |-> cachedEvents]
  /\ UNCHANGED <<env, sheet, cachedEvents, runs, callVars>>

SheetsErrors == {"The caller does not have permission", ""}

\* The replies tried on the requests of the refresh handlers.
RunReplies ==
  {Response("json", RemoteGood), Response("malformed", [undefined |-> TRUE]),
   Failure(429, 0, "request failed"), Failure(404, 0, "request failed")}

Next ==
  \/ \E r \in Runs, token \in Tokens : PostRefresh(r, token)
  \/ \E r \in Runs, m \in SheetsErrors : SheetsFail(r, m)
  \/ \E r \in Runs : SheetsOk(r)
  \/ \E r \in Runs, reply \in RunReplies : RunReply(r, reply)
  \/ \E r \in Runs : RunWake(r)
  \/ GetEvents

Spec == Init /\ [][Next]_vars

\* Every Sheets read, every remote request and every backoff sleep of a
\* handler ends: the promise the handler awaits settles.
Fairness ==
  \A r \in Runs :
    /\ WF_vars(SheetsOk(r) \/ \E m \in SheetsErrors : SheetsFail(r, m))
    /\ WF_vars(\E reply \in RunReplies : RunReply(r, reply))
    /\ WF_vars(RunWake(r))

SpecLive == Spec /\ Fairness

(* ------------------- classifyWithRetry called directly ---------------- *)

\* classifyWithRetry(ev, maxRetries) is called.
Invoke(ev, maxRetries) ==
  /\ call.phase = "none"
  /\ call' = beginCall(ev, maxRetries)
  /\ requests' = IF call'.phase = "request" THEN 1 ELSE 0
  /\ sleeps' = <<>>
  /\ log' = <<>>
  /\ UNCHANGED <<probe, serverVars>>

\* The remote request of the direct call settles.
Settle(reply) ==
  /\ call.phase = "request"
  /\ call' = onReply(call, reply)
  /\ log' = Append(log, reply)
  /\ sleeps' = IF call'.phase = "sleep" THEN Append(sleeps, call.delay) ELSE sleeps
  /\ UNCHANGED <<requests, probe, serverVars>>

\* The backoff sleep of the direct call ends.
Wake ==
  /\ call.phase = "sleep"
  /\ call' = onWake(call)
  /\ requests' = IF call'.phase = "request" THEN requests + 1 ELSE requests
  /\ UNCHANGED <<sleeps, log, probe, serverVars>>

NextCall ==
  \/ \E ev \in DirectEvents, k \in 0..MaxRetriesBound : Invoke(ev, k)
  \/ \E reply \in Replies : Settle(reply)
  \/ Wake

InitCall == Init /\ env.REFRESH_TOKEN = "" /\ env.MAX_EVENTS = "" /\ sheet = <<>>

SpecCall == InitCall /\ [][NextCall]_vars

(* ------------------- the pure functions applied directly -------------- *)

\* Cell values of the columns fallbackClassification reads.
ProbeTitles ==
  {Str(""), Str("Resume Workshop"), Str("Career fair & workshop"),
   Str("PhD alumni, staff and public mixer"), Num(2026)}

ProbeDates ==
  {Str(""), Str("sept 26 6:00pm"), Str("  Oct   3 "), Str("xyz 5"),
   Num(45926), Str("jan 999999999 7pm"), Str("constructor 5")}

ProbeLocations == {Str(""), Str("Zoom"), Str("Hybrid: lab & online")}

ProbeDescriptions == {Str(""), Str("Free pizza, free food! GDS tech resume")}

\* Rows with their trailing empty cells left out, and full rows.
ProbeRows ==
  {<<>>}
    \cup {<<t>> : t \in ProbeTitles}
    \cup {<<t, d>> : t \in ProbeTitles, d \in ProbeDates}
    \cup {<<t, d, l, Str(""), x>> :
            t \in ProbeTitles, d \in ProbeDates, l \in ProbeLocations,
            x \in ProbeDescriptions}

\* Tokens of the eight keyword groups, two of the first, and one of none.
TokenPool ==
  {"workshop", "bootcamp", "career", "mixer", "club", "volunteer", "talk",
   "run", "film", "pizza"}

\* Date strings by their pieces: a month token, a day, and a time or none.
MonthPieces ==
  {[text |-> "sept", known |-> TRUE, v |-> 8],
   [text |-> "Jan", known |-> TRUE, v |-> 0],
   [text |-> "DEC", known |-> TRUE, v |-> 11],
   [text |-> "xyz", known |-> FALSE, v |-> 0],
   [text |-> "constructor", known |-> FALSE, v |-> 0]}

DayPieces ==
  {[text |-> "26", v |-> 26], [text |-> "31", v |-> 31], [text |-> "x", v |-> 1]}

HourPieces == {6, 12, 13}

MinutePieces ==
  {[text |-> "", v |-> 0], [text |-> ":00", v |-> 0], [text |-> ":30", v |-> 30]}

Meridiems == {"", "am", "pm"}

\* A time H[:MM][am|pm], a text that is no time, or no time at all.
TimePieces ==
  {[kind |-> "time", text |-> natToString(h) \o mm.text \o mer,
    h |-> h, mm |-> mm.v, mer |-> mer] :
     h \in HourPieces, mm \in MinutePieces, mer \in Meridiems}
    \cup {[kind |-> "other", text |-> t, h |-> 0, mm |-> 0, mer |-> ""] :
            t \in {"noon", "6:5pm"}}
    \cup {[kind |-> "absent", text |-> "", h |-> 0, mm |-> 0, mer |-> ""]}

DatePieces ==
  {[kind |-> "pieces", month |-> m, day |-> d, time |-> t] :
     m \in MonthPieces, d \in DayPieces, t \in TimePieces}

dateText(src) ==
  src.month.text \o " " \o src.day.text
    \o (IF src.time.kind = "absent" THEN "" ELSE " " \o src.time.text)

Probe(fn, arg, src) ==
  [fn |-> fn, arg |-> arg, src |-> src, done |-> FALSE, out |-> <<>>]

Probes ==
  {Probe("fallbackClassification", row, <<>>) : row \in ProbeRows}
    \cup {Probe("categoryOf", tokens, <<>>) : tokens \in SUBSET TokenPool}
    \cup {Probe("parseCampusDate", Str(dateText(src)), src) : src \in DatePieces}
    \cup {Probe("parseCampusDate", Str(""), [kind |-> "empty"]),
          Probe("parseCampusDate", Num(45926), [kind |-> "number"])}

Applied(out) == [probe EXCEPT !.done = TRUE, !.out = out]

\* fallbackClassification(rowToEvent(row))
ApplyFallback ==
  /\ probe.fn = "fallbackClassification" /\ ~probe.done
  /\ probe' = Applied(fallbackClassification(rowToEvent(probe.arg)))
  /\ UNCHANGED <<serverVars, call, requests, sleeps, log>>

\* The category chain of fallbackClassification on a token set.
ApplyCategory ==
  /\ probe.fn = "categoryOf" /\ ~probe.done
  /\ probe' = Applied(categoryOf(probe.arg))
  /\ UNCHANGED <<serverVars, call, requests, sleeps, log>>

\* parseCampusDate(s)
ApplyParse ==
  /\ probe.fn = "parseCampusDate" /\ ~probe.done
  /\ probe' = Applied(parseCampusDate(probe.arg))
  /\ UNCHANGED <<serverVars, call, requests, sleeps, log>>

NextFn == ApplyFallback \/ ApplyCategory \/ ApplyParse

InitFn ==
  /\ env = [REFRESH_TOKEN |-> "", MAX_EVENTS |-> ""]
  /\ sheet = <<>>
  /\ cachedEvents = <<>>
  /\ runs = [r \in Runs |-> IdleRun]
  /\ getResponse = [status |-> 0, events |-> <<>>]
  /\ call = NoCall
  /\ requests = 0
  /\ sleeps = <<>>
  /\ log = <<>>
  /\ probe \in Probes

SpecFn == InitFn /\ [][NextFn]_vars

(* ------------------- properties of classifyWithRetry ------------------ *)

Last(q) == q[Len(q)]

RECURSIVE Sum(_)
Sum(q) == IF q = <<>> THEN 0 ELSE Head(q) + Sum(Tail(q))

RECURSIVE Pow2(_)
Pow2(k) == IF k = 0 THEN 1 ELSE 2 * Pow2(k - 1)

\* The HTTP status a reply carries, 0 when it carries none.
HttpStatus(reply) ==
  IF reply.status # 0 THEN reply.status ELSE reply.responseStatus

\* The reply is a response whose text parses.
Succeeds(reply) == reply.kind = "response" /\ reply.syntax = "json"

\* The reply is a failure the retry policy names: 429, 5xx, malformed output.
NamedRetryable(reply) ==
  \/ reply.kind = "error" /\ HttpStatus(reply) = 429
  \/ reply.kind = "error" /\ HttpStatus(reply) \in 500..599
  \/ reply.kind = "response" /\ reply.syntax # "json"

\* C1: classifyWithRetry never throws: whatever the event, maxRetries and
\* the replies of the remote classifier, a call that has ended has returned
\* a remote result or a fallback result.
C1_NeverThrows ==
  /\ call.phase # "thrown"
  /\ call.phase = "returned" => call.source \in {"remote", "fallback"}

\* C2: every value classifyWithRetry returns, remote or fallback, meets the
\* Classification schema, whatever text the remote service sent.
C2_ReturnsMeetSchema ==
  call.phase = "returned" => classificationSchema(call.result)

\* C3: after a failed attempt n the call sleeps and tries again if and only
\* if n < maxRetries and the failure is 429, 5xx or malformed output; after
\* any other failure it returns the fallback result at once, with no sleep
\* and no further request (so after one request when the first one fails so).
C3_RetryIffEligible ==
  [][(call.phase = "request" /\ Len(log') = Len(log) + 1 /\ ~Succeeds(Last(log')))
       => IF call.attempt < call.maxRetries /\ NamedRetryable(Last(log'))
          THEN /\ call'.phase = "sleep"
               /\ Len(sleeps') = Len(sleeps) + 1
          ELSE /\ call'.phase = "returned"
               /\ call'.source = "fallback"
               /\ sleeps' = sleeps
               /\ requests' = requests
               /\ (Len(log') = 1 => requests' = 1 /\ sleeps' = <<>>)]_vars

\* C4: a call makes at most maxRetries + 1 remote requests, is Done with the
\* remote result on the first success and Done with the fallback result on
\* a retryable failure at attempt maxRetries, and once Done sends nothing.
C4_BoundedAttempts ==
  /\ requests <= call.maxRetries + 1
  /\ (call.phase \in {"returned", "thrown"} /\ log # <<>>)
       => /\ Succeeds(Last(log))
            => call.phase = "returned" /\ call.source = "remote"
                 /\ call.result = Last(log).value
          /\ (NamedRetryable(Last(log)) /\ Len(log) = call.maxRetries + 1)
            => call.phase = "returned" /\ call.source = "fallback"
          /\ requests = Len(log)

\* C5: the k-th sleep (k = 0, 1, ...) lasts 1500 * 2^k, no sleep follows the
\* last attempt, and the sleeps of one call add up to no more than the sum
\* of 1500 * 2^i for i < maxRetries (4500 for maxRetries = 2).
C5_Backoff ==
  call.phase # "none" =>
    /\ \A k \in 1..Len(sleeps) : sleeps[k] = 1500 * Pow2(k - 1)
    /\ Len(sleeps) <= call.maxRetries
    /\ Len(sleeps) = (IF call.phase = "sleep" THEN requests ELSE requests - 1)
    /\ Sum(sleeps) <= 1500 * (Pow2(call.maxRetries) - 1)
    /\ call.maxRetries = 2 => Sum(sleeps) <= 4500

\* A call with maxRetries = 2 has ended after sleeping 1500 and then 3000.
C5_Witness ==
  /\ call.phase \in {"returned", "thrown"}
  /\ call.maxRetries = 2
  /\ sleeps = <<1500, 3000>>

\* C6: with the default maxRetries, 429 on attempts 0 and 1 and a success on
\* attempt 2, the call returns that remote result, not the fallback, and
\* has slept 1500 + 3000 = 4500.
C6_TwoRateLimitsThenSuccess ==
  (/\ call.maxRetries = DefaultMaxRetries
   /\ Len(log) = 3
   /\ log[1].kind = "error" /\ HttpStatus(log[1]) = 429
   /\ log[2].kind = "error" /\ HttpStatus(log[2]) = 429
   /\ Succeeds(log[3]))
    => /\ call.phase = "returned"
       /\ call.source = "remote"
       /\ call.result = log[3].value
       /\ sleeps = <<1500, 3000>>
       /\ Sum(sleeps) = 4500

\* The third request of a default call has succeeded after two 429 replies.
C6_Witness ==
  /\ call.maxRetries = DefaultMaxRetries
  /\ Len(log) = 3
  /\ log[1].kind = "error" /\ HttpStatus(log[1]) = 429
  /\ log[2].kind = "error" /\ HttpStatus(log[2]) = 429
  /\ Succeeds(log[3])
  /\ call.phase = "returned"

(* ---------------------- properties of the routes ---------------------- *)

Min(a, b) == IF a < b THEN a ELSE b

\* The number MAX_EVENTS spells.
CapOf(e) == CHOOSE k \in 0..(MaxRows + 1) : natToString(k) = e.MAX_EVENTS

\* The rows a run is to process: all of them, or the first MAX_EVENTS.
Expected(e, rows) ==
  IF e.MAX_EVENTS = "" THEN Len(rows) ELSE Min(Len(rows), CapOf(e))

\* The classifications a row's call can return under the replies tried.
Outcomes(row) ==
  {RemoteGood}
    \cup (IF fallbackClassification(rowToEvent(row)).throws THEN {}
          ELSE {fallbackClassification(rowToEvent(row)).value})

\* C7: a run answered with 200 has produced min(rows, cap) entries (all
\* rows with no cap), the i-th being the i-th row's event together with a
\* classification of that row.
C7_BatchMatchesInput ==
  \A r \in Runs :
    runs[r].response.status = 200 =>
      LET out == runs[r].results
          n   == Expected(env, sheet)
      IN  /\ Len(out) = n
          /\ runs[r].response.count = n
          /\ \A i \in 1..n :
               /\ out[i] = withClassification(rowToEvent(sheet[i]),
                                              out[i].classification)
               /\ out[i].classification \in Outcomes(sheet[i])

\* A run over two different rows with MAX_EVENTS = 1 has answered 200.
C7_Witness ==
  \E r \in Runs :
    /\ runs[r].response.status = 200
    /\ Len(sheet) = 2 /\ sheet[1] # sheet[2]
    /\ env.MAX_EVENTS = "1"
    /\ runs[r].response.count = 1

\* C8: the cache is always the initial empty list or the whole output of one
\* run that has answered 200, never part of a batch and never a mix of two,
\* and the step that answers 200 leaves the cache equal to that run's batch.
C8_CacheIsOneWholeBatch ==
  /\ [](\/ cachedEvents = <<>>
        \/ \E r \in Runs :
             /\ runs[r].response.status = 200
             /\ cachedEvents = runs[r].results
             /\ Len(runs[r].results) = Expected(env, sheet))
  /\ [][\A r \in Runs :
          (runs[r].response.status # 200 /\ runs'[r].response.status = 200)
            => cachedEvents' = runs'[r].results]_vars

\* The cache holds a finished batch while another run is part-way through
\* its own batch with a different first entry.
C8_Witness ==
  \E r, q \in Runs :
    /\ runs[r].response.status = 200
    /\ cachedEvents = runs[r].results
    /\ Len(cachedEvents) = 2
    /\ runs[q].pc = "classify"
    /\ Len(runs[q].results) = 1
    /\ runs[q].results[1] # cachedEvents[1]

\* C9: at most one remote classification request is in flight at any
\* moment, over all the refresh requests the server is handling.
C9_OneRequestInFlight ==
  Cardinality({r \in Runs : runs[r].pc = "classify"
                              /\ runs[r].call.phase = "request"}) <= 1

\* C10: a run that fails answers 500 with ok false and a message and leaves
\* the cache as it was; the cache changes only in the step in which a run
\* answers 200, so a run that fails has committed nothing.
C10_FailedRunKeepsCache ==
  [][/\ \A r \in Runs :
          (runs[r].response.status # 500 /\ runs'[r].response.status = 500)
            => /\ runs[r].response.status = 0
               /\ cachedEvents' = cachedEvents
               /\ runs'[r].response.ok = FALSE
               /\ runs'[r].response.error # ""
     /\ \A r \in Runs : runs[r].response.status = 500 => runs'[r] = runs[r]
     /\ cachedEvents' # cachedEvents
          => \E r \in Runs : /\ runs[r].response.status = 0
                             /\ runs'[r].response.status = 200]_vars

\* A run has failed on its second row, after classifying the first, while
\* the cache holds an earlier batch, which GET /api/events has served since.
C10_Witness ==
  \E r \in Runs :
    /\ runs[r].response = [status |-> 500, ok |-> FALSE, count |-> 0,
                           error |-> "s.trim is not a function"]
    /\ sheet = <<RowWorkshop, RowSerialDate>>
    /\ env.MAX_EVENTS = ""
    /\ Len(cachedEvents) = 2
    /\ getResponse = [status |-> 200, events |-> cachedEvents]

\* The body of a 401 response.
Unauthorized401 ==
  [status |-> 401, ok |-> FALSE, count |-> 0, error |-> "unauthorized"]

\* C11: with a secret configured, a POST /api/refresh whose token differs
\* from it (or is missing) is answered 401 {ok:false, error:"unauthorized"}
\* in the step it arrives, and that step has no other effect: the cache and
\* every other handler are unchanged, the handler has ended without reading
\* the sheet and without a classification call, and it never acts again.
C11_UnauthorizedNoEffects ==
  [][/\ \A r \in Runs, token \in Tokens :
          (/\ PostRefresh(r, token)
           /\ env.REFRESH_TOKEN # ""
           /\ token # Str(env.REFRESH_TOKEN))
            => /\ runs'[r].response = Unauthorized401
               /\ runs'[r].pc = "done"
               /\ runs'[r].call = NoCall
               /\ runs'[r].toClassify = <<>> /\ runs'[r].results = <<>>
               /\ cachedEvents' = cachedEvents
               /\ sheet' = sheet
               /\ \A q \in Runs \ {r} : runs'[q] = runs[q]
     /\ \A r \in Runs :
          runs[r].response.status = 401
            => runs'[r] = runs[r] /\ runs[r].pc = "done"]_vars

\* A request with a wrong token has been answered 401 while the cache holds
\* the batch of an earlier authorized run, and GET /api/events has served
\* that batch since.
C11_Witness ==
  \E r, q \in Runs :
    /\ runs[r].response = Unauthorized401
    /\ env.REFRESH_TOKEN = "s3cret"
    /\ runs[q].response.status = 200
    /\ cachedEvents = runs[q].results
    /\ Len(cachedEvents) = 2
    /\ getResponse = [status |-> 200, events |-> cachedEvents]

\* C12: once the sheet has been read, no failure of a row's remote calls
\* aborts the run: a run in its classification loop never answers 500, and
\* when it answers, its output has one entry for every row processed.
C12_RowFailureNeverAborts ==
  [][\A r \in Runs :
       runs[r].pc = "classify"
         => /\ runs'[r].response.status # 500
            /\ runs'[r].pc = "done"
                 => /\ runs'[r].response.status = 200
                    /\ Len(runs'[r].results) = Len(runs[r].toClassify)]_vars

\* C14: every GET /api/events response is 200 with the cache as it is at
\* that moment, and the request changes nothing else; as long as no run has
\* answered 200 (whatever 401 and 500 answers there were, and while runs are
\* in progress) the cache is empty, so the response is {events: []}.
C14_EventsServesCache ==
  /\ [][getResponse' # getResponse
          => /\ getResponse' = [status |-> 200, events |-> cachedEvents]
             /\ UNCHANGED <<cachedEvents, runs>>]_vars
  /\ [](getResponse.status \in {0, 200})
  /\ []((\A r \in Runs : runs[r].response.status # 200)
          => cachedEvents = <<>> /\ getResponse.events = <<>>)

\* GET /api/events has answered {events: []} after one request was answered
\* 401 or 500, while another run is in its loop with one row classified.
C14_Witness ==
  \E r, q \in Runs :
    /\ runs[r].response.status \in {401, 500}
    /\ runs[q].pc = "classify" /\ Len(runs[q].results) = 1
    /\ getResponse = [status |-> 200, events |-> <<>>]

\* C17: every run that is past the token guard eventually answers, with
\* 200 or with 500; a handler that has answered never answers again; and
\* the step that answers 200 {ok:true, count:N} has put the run's batch of
\* N entries in the cache.
C17_RunsRespondOnce ==
  /\ \A r \in Runs :
       (runs[r].pc \in {"sheets", "classify"})
         ~> (runs[r].pc = "done" /\ runs[r].response.status \in {200, 500})
  /\ [](\A r \in Runs : runs[r].response.status # 0 <=> runs[r].pc = "done")
  /\ [][\A r \in Runs :
          /\ runs[r].response.status # 0
               => runs'[r].response = runs[r].response
          /\ (runs[r].response.status = 0 /\ runs'[r].response.status = 200)
               => /\ runs'[r].response.ok
                  /\ runs'[r].response.count = Len(runs'[r].results)
                  /\ cachedEvents' = runs'[r].results]_vars

\* One run has answered 200 with a batch of two and the other, which read
\* the sheet as well, has answered 500.
C17_Witness ==
  \E r, q \in Runs :
    /\ runs[r].response = [status |-> 200, ok |-> TRUE, count |-> 2, error |-> ""]
    /\ cachedEvents = runs[r].results
    /\ runs[q].response.status = 500
    /\ runs[q].response.error = "s.trim is not a function"

\* C18: the cache holds the batch of the run that started last among the
\* runs that have answered 200 (the requests are numbered in the order they
\* arrive), so a run that started earlier never replaces the batch of a run
\* that started later, however the runs overlap.
C18_LatestStartedBatch ==
  \A r \in Runs :
    (/\ runs[r].response.status = 200
     /\ \A q \in Runs : q > r => runs[q].response.status # 200)
      => cachedEvents = runs[r].results

\* C19: with no secret configured a POST /api/refresh with any token, or
\* none, goes on to read the sheet, and no request is ever answered 401;
\* with a secret configured a request goes on to read the sheet only if its
\* token is the secret.
C19_TokenGate ==
  /\ [][\A r \in Runs, token \in Tokens :
          PostRefresh(r, token)
            => /\ env.REFRESH_TOKEN = ""
                    => runs'[r].pc = "sheets" /\ runs'[r].response = NoResponse
               /\ (env.REFRESH_TOKEN # "" /\ runs'[r].pc # "done")
                    => token = Str(env.REFRESH_TOKEN)]_vars
  /\ [][\A r \in Runs :
          (runs[r].pc = "idle" /\ runs'[r].pc = "sheets" /\ env.REFRESH_TOKEN # "")
            => PostRefresh(r, Str(env.REFRESH_TOKEN))]_vars
  /\ [](env.REFRESH_TOKEN = ""
          => \A r \in Runs : runs[r].response.status # 401)

\* With no secret configured both requests have got past the token guard:
\* one has answered 200 and the other is reading the sheet.
C19_Witness ==
  \E r, q \in Runs :
    /\ env.REFRESH_TOKEN = ""
    /\ runs[r].response.status = 200
    /\ runs[q].pc = "sheets"

(* ------------------ properties of the pure functions ------------------ *)

NoDuplicates(q) == \A i, j \in 1..Len(q) : q[i] = q[j] => i = j

\* C13: on every row a sheet can hold, with empty and missing cells,
\* fallbackClassification(rowToEvent(row)) does not throw, and returns a
\* category of the ten labels, at most 8 tags without duplicates, an
\* audience of 1 to 3 entries that starts with Undergrad, a normalized
\* date, a location type of the four, and confidence 0.25.
C13_FallbackTotal ==
  (probe.fn = "fallbackClassification" /\ probe.done) =>
    /\ ~probe.out.throws
    /\ probe.out.value.category \in Categories
    /\ Len(probe.out.value.tags) <= 8
    /\ NoDuplicates(probe.out.value.tags)
    /\ Len(probe.out.value.audience) \in 1..3
    /\ probe.out.value.audience[1] = "Undergrad"
    /\ probe.out.value.normalized_date
         \in [day : -100000000..100000000, minute : 0..1439]
    /\ probe.out.value.location_type \in LocationTypes
    /\ probe.out.value.confidence = 25

\* The keyword groups in the order the sentence gives.
CategoryGroups ==
  <<[name |-> "Workshop",  words |-> {"workshop", "tutorial", "bootcamp"}],
    [name |-> "Career",    words |-> {"career", "recruit", "internship"}],
    [name |-> "Social",    words |-> {"game", "party", "mixer", "social"}],
    [name |-> "Club/Org",  words |-> {"club", "org", "meeting"}],
    [name |-> "Volunteer", words |-> {"volunteer", "service"}],
    [name |-> "Academic",  words |-> {"lecture", "seminar", "talk", "colloquium"}],
    [name |-> "Sports",    words |-> {"basketball", "soccer", "run", "tournament"}],
    [name |-> "Cultural",  words |-> {"heritage", "cultural", "festival", "film"}]>>

Matching(tokens) ==
  {g \in 1..Len(CategoryGroups) : CategoryGroups[g].words \cap tokens # {}}

\* The category of the earliest group with a keyword among the tokens.
EarliestGroup(tokens) ==
  IF Matching(tokens) = {} THEN "Other"
  ELSE CategoryGroups[CHOOSE g \in Matching(tokens) :
                        \A h \in Matching(tokens) : g <= h].name

\* The tokens fallbackClassification reads from a row.
RowTokens(row) ==
  tokenSet(toLowerCase(toString(rowToEvent(row).title) \o " "
                         \o toString(rowToEvent(row).description) \o " "
                         \o toString(rowToEvent(row).location)))

\* C15: the fallback category is that of the earliest keyword group, in the
\* order Workshop, Career, Social, Club/Org, Volunteer, Academic, Sports,
\* Cultural, that has a keyword among the tokens, and Other when none has:
\* for every token set, and in every result fallbackClassification returns.
C15_EarliestGroupWins ==
  /\ (probe.fn = "categoryOf" /\ probe.done)
       => probe.out = EarliestGroup(probe.arg)
  /\ (probe.fn = "fallbackClassification" /\ probe.done /\ ~probe.out.throws)
       => probe.out.value.category = EarliestGroup(RowTokens(probe.arg))

\* A token set with "workshop", "career" and more has been given Workshop.
C15_Witness ==
  /\ probe.fn = "categoryOf" /\ probe.done
  /\ {"workshop", "career", "film"} \subseteq probe.arg
  /\ probe.out = "Workshop"

\* The 24-hour hour the sentence gives for hour h with meridiem mer.
ClaimedHour(h, mer) ==
  CASE mer = "pm" -> (IF h = 12 THEN 12 ELSE h + 12)
    [] mer = "am" -> (IF h = 12 THEN 0 ELSE h)
    [] OTHER      -> h

\* The date the sentence gives for a string made of a known month, a day
\* and a time, a text that is no time, or no time.
ClaimedDate(src) ==
  IF src.time.kind = "time"
  THEN NewDate(CurrentYear, src.month.v, src.day.v,
               ClaimedHour(src.time.h, src.time.mer), src.time.mm)
  ELSE NewDate(CurrentYear, src.month.v, src.day.v, 9, 0)

\* C16: parseCampusDate does not throw; for a string whose month token is
\* one of the month names it returns the date of the current year with that
\* month, the day (1 when it is no number) and the time in 24-hour form
\* (09:00 when there is none or it does not parse); "sept 26 6:00pm" gives
\* month 8, day 26, 18:00; for the empty string and for any other first
\* token it returns the current instant.
C16_ParsesCampusDates ==
  (probe.fn = "parseCampusDate" /\ probe.done) =>
    /\ ~probe.out.throws
    /\ probe.src.kind = "empty" => probe.out.value = Now
    /\ (probe.src.kind = "pieces" /\ ~probe.src.month.known)
         => probe.out.value = Now
    /\ (probe.src.kind = "pieces" /\ probe.src.month.known)
         => probe.out.value = ClaimedDate(probe.src)
    /\ probe.arg = Str("sept 26 6:00pm")
         => probe.out.value = NewDate(CurrentYear, 8, 26, 18, 0)

====
